---- MODULE Spec2Model ----
(***************************************************************************)
(* State machine of the App component of src/src/App.tsx: the file intake  *)
(* (pick / drop -> validate -> FileReader.readAsDataURL -> setState), the  *)
(* drag flag, the Clear and Insert handlers and the message listener.      *)
(*                                                                         *)
(* Every handler runs to completion on the event loop, so each handler is  *)
(* one atomic action.  The only asynchronous step is the FileReader: a     *)
(* reader that was started stays in `pending` until the platform fires its *)
(* load or its error callback, in any order relative to other readers.     *)
(*                                                                         *)
(* Handlers are modelled as operations of the component: Clear and Insert  *)
(* are callable in every state, although the JSX only renders their        *)
(* buttons while imageDataUrl is truthy (App.tsx:127).                     *)
(***************************************************************************)
EXTENDS Integers, Sequences, FiniteSets, TLC

\* ------------------------------------------------------------------------
\* Bounds of the model

\* at most this many FileReaders in flight at once
MaxPending == 2
\* at most this many calls of editor.addComponent are recorded
MaxCalls == 1

\* ------------------------------------------------------------------------
\* Values

\* JavaScript null.  State fields are `string | null`; Null is a string no
\* file name, MIME type, data URL or message equals.
Null == "<null>"

\* event.target.files?.[0] / event.dataTransfer.files?.[0] being undefined
NoFile == [name |-> Null, type |-> Null, bytes |-> <<>>]

ALLOWED_TYPES == <<"image/svg+xml", "image/webp">>

\* The three messages passed to setError
UnsupportedType == "Please upload an SVG or WebP file."
ReadFailure == "Failed to read the file."
NoFileSelected == "No image selected."

\* The fixed size passed to editor.addComponent
StyleWidth == 200
StyleHeight == 200

\* Candidate files the platform may deliver: name, reported MIME type and
\* byte content.  Two pass the allow-list; the others differ from an allowed
\* type by case, by being a prefix of it, or by being empty.
Files ==
  { [name |-> "logo.svg",   type |-> "image/svg+xml", bytes |-> <<60, 115>>],
    [name |-> "photo.webp", type |-> "image/webp",    bytes |-> <<82, 73, 70>>],
    [name |-> "LOGO.SVG",   type |-> "IMAGE/SVG+XML", bytes |-> <<60>>],
    [name |-> "half.svg",   type |-> "image/svg",     bytes |-> <<60>>],
    [name |-> "README",     type |-> "",              bytes |-> <<35>>] }

\* ------------------------------------------------------------------------
\* Pure functions

\* fault: the MIME type is compared ignoring case
Lower(x) == IF x = "IMAGE/SVG+XML" THEN "image/svg+xml" ELSE x
Includes_IgnoreCase(arr, x) == \E i \in 1..Len(arr) : arr[i] = Lower(x)

\* Array.prototype.includes: strict equality with some element
Includes(arr, x) == \E i \in 1..Len(arr) : arr[i] = x

\* JavaScript `!x` for a `string | null` value
Falsy(x) == x = Null \/ x = ""

B64Alphabet ==
  << "A","B","C","D","E","F","G","H","I","J","K","L","M","N","O","P",
     "Q","R","S","T","U","V","W","X","Y","Z","a","b","c","d","e","f",
     "g","h","i","j","k","l","m","n","o","p","q","r","s","t","u","v",
     "w","x","y","z","0","1","2","3","4","5","6","7","8","9","+","/" >>

B64Char(n) == B64Alphabet[n + 1]

\* base64 of a byte sequence, three bytes to four characters, "=" padded
RECURSIVE Base64(_)
Base64(bytes) ==
  IF Len(bytes) = 0 THEN ""
  ELSE IF Len(bytes) = 1 THEN
    B64Char(bytes[1] \div 4) \o B64Char((bytes[1] % 4) * 16) \o "=="
  ELSE IF Len(bytes) = 2 THEN
    LET n == (bytes[1] * 256 + bytes[2]) * 4
    IN  B64Char(n \div 4096) \o B64Char((n \div 64) % 64) \o B64Char(n % 64) \o "="
  ELSE
    LET n == bytes[1] * 65536 + bytes[2] * 256 + bytes[3]
    IN  B64Char(n \div 262144) \o B64Char((n \div 4096) % 64)
          \o B64Char((n \div 64) % 64) \o B64Char(n % 64)
          \o Base64(SubSeq(bytes, 4, Len(bytes)))

\* reader.result after a successful readAsDataURL(file)
DataUrl(file) == "data:" \o file.type \o ";base64," \o Base64(file.bytes)

\* ------------------------------------------------------------------------
\* State

VARIABLES
  imageDataUrl,   \* useState<string | null>
  fileName,       \* useState<string | null>
  fileType,       \* useState<string | null>
  error,          \* useState<string | null>
  dragActive,     \* useState<boolean>
  pending,        \* FileReaders started by readAsDataURL, not yet completed,
                  \* in the order they were started
  hostCalls,      \* arguments of the calls of editor.addComponent, in order
  phase,          \* "rendered" (effect not yet run), "active", "unmounted"
  listeners,      \* number of 'message' listeners of this component on window
  event,          \* history: the handler or callback that ran last
  prev,           \* history: the result fields before that handler ran
  cleared,        \* history: reset ran and no file was selected since
  lastLoaded      \* history: the file of the reader whose load fired last

result == <<imageDataUrl, fileName, fileType, error>>
vars == <<imageDataUrl, fileName, fileType, error, dragActive, pending,
          hostCalls, phase, listeners, event, prev, cleared, lastLoaded>>

\* A reader in flight: the file captured by its closures, plus history:
\* supersededBy is the file of the latest valid selection made after this
\* reader was started (NoFile while this reader is the latest), and
\* newerLoaded tells whether that later selection's decode has succeeded.
Reader(file) == [file |-> file, supersededBy |-> NoFile, newerLoaded |-> FALSE]
NoReader == Reader(NoFile)

Snapshot == [imageDataUrl |-> imageDataUrl, fileName |-> fileName,
             fileType |-> fileType, error |-> error,
             nPending |-> Len(pending), nCalls |-> Len(hostCalls)]

Ev(kind, file, reader) == [kind |-> kind, file |-> file, reader |-> reader]

Log(kind, file, reader) ==
  /\ event' = Ev(kind, file, reader)
  /\ prev' = Snapshot
  /\ cleared' = IF kind = "clear" THEN TRUE
                ELSE IF kind \in {"pick", "drop"} /\ file # NoFile THEN FALSE
                ELSE cleared
  /\ lastLoaded' = IF kind = "load" THEN file ELSE lastLoaded

Init ==
  /\ imageDataUrl = Null
  /\ fileName = Null
  /\ fileType = Null
  /\ error = Null
  /\ dragActive = FALSE
  /\ pending = <<>>
  /\ hostCalls = <<>>
  /\ phase = "rendered"
  /\ listeners = 0
  /\ event = Ev("init", NoFile, NoReader)
  /\ prev = [imageDataUrl |-> Null, fileName |-> Null, fileType |-> Null,
             error |-> Null, nPending |-> 0, nCalls |-> 0]
  /\ cleared = FALSE
  /\ lastLoaded = NoFile

\* ------------------------------------------------------------------------
\* Operations

\* fault: reset forgets the file type
reset_KeepsType ==
  /\ imageDataUrl' = Null
  /\ fileName' = Null
  /\ error' = Null
  /\ UNCHANGED fileType

\* const reset = useCallback(...)
reset ==
  /\ imageDataUrl' = Null
  /\ fileName' = Null
  /\ fileType' = Null
  /\ error' = Null

\* new FileReader(); reader.readAsDataURL(file): every reader in flight is
\* now superseded by this selection
StartReader(file) ==
  pending' = Append([i \in 1..Len(pending) |->
                       [pending[i] EXCEPT !.supersededBy = file,
                                          !.newerLoaded = FALSE]],
                    Reader(file))

\* fault: the rejection does not return, the rejected file is read as well
readFileAsDataUrl_NoReturn(file) ==
  IF ~Includes(ALLOWED_TYPES, file.type)
  THEN /\ error' = UnsupportedType
       /\ StartReader(file)
       /\ UNCHANGED <<imageDataUrl, fileName, fileType>>
  ELSE /\ error' = Null
       /\ StartReader(file)
       /\ UNCHANGED <<imageDataUrl, fileName, fileType>>

\* fault: an accepted file does not clear the error
readFileAsDataUrl_KeepError(file) ==
  IF ~Includes(ALLOWED_TYPES, file.type)
  THEN /\ error' = UnsupportedType
       /\ UNCHANGED <<imageDataUrl, fileName, fileType, pending>>
  ELSE /\ StartReader(file)
       /\ UNCHANGED <<imageDataUrl, fileName, fileType, error>>

\* const readFileAsDataUrl = (file: File) => ...
readFileAsDataUrl(file) ==
  IF ~Includes(ALLOWED_TYPES, file.type)
  THEN /\ error' = UnsupportedType
       /\ UNCHANGED <<imageDataUrl, fileName, fileType, pending>>
  ELSE /\ error' = Null
       /\ StartReader(file)
       /\ UNCHANGED <<imageDataUrl, fileName, fileType>>

\* the model keeps at most MaxPending readers in flight
CanSelect(file) ==
  file # NoFile /\ Includes(ALLOWED_TYPES, file.type) => Len(pending) < MaxPending

Mounted == phase # "unmounted"

\* fault: a change event without a file reports "No image selected."
handleFileChange_ReportsNoFile(file) ==
  /\ Mounted
  /\ CanSelect(file)
  /\ IF file = NoFile
     THEN /\ error' = NoFileSelected
          /\ UNCHANGED <<imageDataUrl, fileName, fileType, pending>>
     ELSE readFileAsDataUrl(file)
  /\ Log("pick", file, NoReader)
  /\ UNCHANGED <<dragActive, hostCalls, phase, listeners>>

\* const handleFileChange = (event) => ...
handleFileChange(file) ==
  /\ Mounted
  /\ CanSelect(file)
  /\ IF file = NoFile
     THEN UNCHANGED <<imageDataUrl, fileName, fileType, error, pending>>
     ELSE readFileAsDataUrl(file)
  /\ Log("pick", file, NoReader)
  /\ UNCHANGED <<dragActive, hostCalls, phase, listeners>>

\* fault: a dropped file is taken in only while the drag flag is set
handleDrop_OnlyWhileDragging(file) ==
  /\ Mounted
  /\ CanSelect(file)
  /\ dragActive' = FALSE
  /\ IF file # NoFile /\ dragActive
     THEN readFileAsDataUrl(file)
     ELSE UNCHANGED <<imageDataUrl, fileName, fileType, error, pending>>
  /\ Log("drop", file, NoReader)
  /\ UNCHANGED <<hostCalls, phase, listeners>>

\* fault: a dropped file is read without being validated
handleDrop_SkipsValidation(file) ==
  /\ Mounted
  /\ CanSelect(file)
  /\ dragActive' = FALSE
  /\ IF file # NoFile
     THEN /\ error' = Null
          /\ StartReader(file)
          /\ UNCHANGED <<imageDataUrl, fileName, fileType>>
     ELSE UNCHANGED <<imageDataUrl, fileName, fileType, error, pending>>
  /\ Log("drop", file, NoReader)
  /\ UNCHANGED <<hostCalls, phase, listeners>>

\* const handleDrop = (event) => ...
handleDrop(file) ==
  /\ Mounted
  /\ CanSelect(file)
  /\ dragActive' = FALSE
  /\ IF file # NoFile
     THEN readFileAsDataUrl(file)
     ELSE UNCHANGED <<imageDataUrl, fileName, fileType, error, pending>>
  /\ Log("drop", file, NoReader)
  /\ UNCHANGED <<hostCalls, phase, listeners>>

\* const handleDragOver = (event) => ...
handleDragOver ==
  /\ Mounted
  /\ dragActive' = TRUE
  /\ Log("dragover", NoFile, NoReader)
  /\ UNCHANGED <<imageDataUrl, fileName, fileType, error, pending, hostCalls,
                 phase, listeners>>

\* fault: drag-leave toggles the flag instead of clearing it
handleDragLeave_Toggle ==
  /\ Mounted
  /\ dragActive' = ~dragActive
  /\ Log("dragleave", NoFile, NoReader)
  /\ UNCHANGED <<imageDataUrl, fileName, fileType, error, pending, hostCalls,
                 phase, listeners>>

\* const handleDragLeave = (event) => ...
handleDragLeave ==
  /\ Mounted
  /\ dragActive' = FALSE
  /\ Log("dragleave", NoFile, NoReader)
  /\ UNCHANGED <<imageDataUrl, fileName, fileType, error, pending, hostCalls,
                 phase, listeners>>

\* onClick={reset}
Clear ==
  /\ Mounted
  /\ reset
  /\ Log("clear", NoFile, NoReader)
  /\ UNCHANGED <<dragActive, pending, hostCalls, phase, listeners>>

\* fault: the MIME type is passed as the component's name
Component_TypeAsName ==
  [type |-> "Image",
   data |-> [src |-> imageDataUrl, name |-> fileType],
   style |-> [width |-> StyleWidth, height |-> StyleHeight]]

\* the argument of editor.addComponent
Component ==
  [type |-> "Image",
   data |-> [src |-> imageDataUrl, name |-> fileName],
   style |-> [width |-> StyleWidth, height |-> StyleHeight]]

\* fault: the missing-image check is left out
insertToWixEditor_NoGuard ==
  /\ hostCalls' = Append(hostCalls, Component)
  /\ UNCHANGED error

\* const insertToWixEditor = () => ...
insertToWixEditor ==
  IF Falsy(imageDataUrl) \/ Falsy(fileName) \/ Falsy(fileType)
  THEN /\ error' = NoFileSelected
       /\ UNCHANGED hostCalls
  ELSE /\ hostCalls' = Append(hostCalls, Component)
       /\ UNCHANGED error

\* onClick={insertToWixEditor}
Insert ==
  /\ Mounted
  /\ Len(hostCalls) < MaxCalls
  /\ insertToWixEditor
  /\ Log("insert", NoFile, NoReader)
  /\ UNCHANGED <<imageDataUrl, fileName, fileType, dragActive, pending,
                 phase, listeners>>

\* pending without its i-th reader
Remove(i) == SubSeq(pending, 1, i - 1) \o SubSeq(pending, i + 1, Len(pending))

\* history: the latest selection's decode has succeeded
MarkNewerLoaded(readers) ==
  [j \in 1..Len(readers) |-> [readers[j] EXCEPT !.newerLoaded = TRUE]]

\* variant: only the reader of the latest selection publishes its result
onload_LatestOnly(i) ==
  IF pending[i].supersededBy = NoFile
  THEN /\ imageDataUrl' = DataUrl(pending[i].file)
       /\ fileName' = pending[i].file.name
       /\ fileType' = pending[i].file.type
       /\ UNCHANGED error
  ELSE UNCHANGED <<imageDataUrl, fileName, fileType, error>>

\* fault: the load callback publishes nothing
onload_PublishesNothing(i) ==
  UNCHANGED <<imageDataUrl, fileName, fileType, error>>

\* reader.onload = () => ...
onload(i) ==
  /\ imageDataUrl' = DataUrl(pending[i].file)
  /\ fileName' = pending[i].file.name
  /\ fileType' = pending[i].file.type
  /\ UNCHANGED error

\* the platform fires the load event of the i-th reader in flight
ReaderLoad(i) ==
  /\ i \in 1..Len(pending)
  /\ onload(i)
  /\ pending' = IF pending[i].supersededBy = NoFile
                THEN MarkNewerLoaded(Remove(i))
                ELSE Remove(i)
  /\ Log("load", pending[i].file, pending[i])
  /\ UNCHANGED <<dragActive, hostCalls, phase, listeners>>

\* reader.onerror = () => ...
onerror(i) ==
  /\ error' = ReadFailure
  /\ UNCHANGED <<imageDataUrl, fileName, fileType>>

\* fault: a failed read is started again
ReaderError_Retries(i) ==
  /\ i \in 1..Len(pending)
  /\ onerror(i)
  /\ pending' = Append(Remove(i), Reader(pending[i].file))
  /\ Log("error", pending[i].file, pending[i])
  /\ UNCHANGED <<dragActive, hostCalls, phase, listeners>>

\* the platform fires the error event of the i-th reader in flight
ReaderError(i) ==
  /\ i \in 1..Len(pending)
  /\ onerror(i)
  /\ pending' = Remove(i)
  /\ Log("error", pending[i].file, pending[i])
  /\ UNCHANGED <<dragActive, hostCalls, phase, listeners>>

\* useEffect body: window.addEventListener('message', handler); it runs after
\* the first render and again when the component is mounted again
EffectMount ==
  /\ phase \in {"rendered", "unmounted"}
  /\ phase' = "active"
  /\ listeners' = listeners + 1
  /\ Log("mount", NoFile, NoReader)
  /\ UNCHANGED <<imageDataUrl, fileName, fileType, error, dragActive, pending,
                 hostCalls>>

\* fault: the cleanup removes a function that was never registered, so the
\* registered handler stays
EffectCleanup_KeepsListener ==
  /\ phase = "active"
  /\ phase' = "unmounted"
  /\ UNCHANGED listeners
  /\ Log("unmount", NoFile, NoReader)
  /\ UNCHANGED <<imageDataUrl, fileName, fileType, error, dragActive, pending,
                 hostCalls>>

\* useEffect cleanup: window.removeEventListener('message', handler)
EffectCleanup ==
  /\ phase = "active"
  /\ phase' = "unmounted"
  /\ listeners' = listeners - 1
  /\ Log("unmount", NoFile, NoReader)
  /\ UNCHANGED <<imageDataUrl, fileName, fileType, error, dragActive, pending,
                 hostCalls>>

Next ==
  \/ \E file \in Files \cup {NoFile} : handleFileChange(file)
  \/ \E file \in Files \cup {NoFile} : handleDrop(file)
  \/ handleDragOver
  \/ handleDragLeave
  \/ Clear
  \/ Insert
  \/ \E i \in 1..MaxPending : ReaderLoad(i)
  \/ \E i \in 1..MaxPending : ReaderError(i)
  \/ EffectMount
  \/ EffectCleanup

Spec == Init /\ [][Next]_vars

\* The platform completes every read it started: a reader in flight
\* eventually fires load or error.
ReaderCompletes(i) == ReaderLoad(i) \/ ReaderError(i)

SpecFair == Spec /\ \A i \in 1..MaxPending : WF_vars(ReaderCompletes(i))

\* ------------------------------------------------------------------------
\* Type invariant

ValidFiles == {f \in Files : Includes(ALLOWED_TYPES, f.type)}

TypeOK ==
  /\ imageDataUrl \in {Null} \cup {DataUrl(f) : f \in Files}
  /\ fileName \in {Null} \cup {f.name : f \in Files}
  /\ fileType \in {Null} \cup {f.type : f \in Files}
  /\ error \in {Null, UnsupportedType, ReadFailure, NoFileSelected}
  /\ dragActive \in BOOLEAN
  /\ Len(pending) <= MaxPending
  /\ \A i \in 1..Len(pending) : pending[i].file \in ValidFiles
  /\ Len(hostCalls) <= MaxCalls
  /\ phase \in {"rendered", "active", "unmounted"}
  /\ listeners \in 0..1
  /\ cleared \in BOOLEAN
  /\ lastLoaded \in {NoFile} \cup ValidFiles

\* ------------------------------------------------------------------------
\* Properties

IsSelection == event.kind \in {"pick", "drop"} /\ event.file # NoFile

\* C1: in every reachable state at most one of the decoded image
\* (imageDataUrl non-null) and the error message (error non-null) is current.
C1_AtMostOneCurrent == ~(imageDataUrl # Null /\ error # Null)

\* C2: when valid file B was selected while the decode of valid file A was
\* pending and B's decode has succeeded, the later completion of A's decode
\* does not make A the current decoded image.
C2_StaleDecodeDiscarded ==
  (/\ event.kind = "load"
   /\ event.reader.supersededBy \notin {NoFile, event.file}
   /\ event.reader.newerLoaded)
  => ~(/\ imageDataUrl = DataUrl(event.file)
       /\ fileName = event.file.name
       /\ fileType = event.file.type)

\* C3: right after the selection of a file whose MIME type fails validation
\* the error is UnsupportedType and no decoded image is current.
C3_RejectClearsImage ==
  (IsSelection /\ event.file.type \notin {"image/svg+xml", "image/webp"})
  => (error = UnsupportedType /\ imageDataUrl = Null)

\* C4: right after a read failure the error is ReadFailure and no decoded
\* image is current, whatever the prior state was.
C4_ReadFailureNoImage ==
  event.kind = "error" => (error = ReadFailure /\ imageDataUrl = Null)

\* C5: right after the successful decode of a file the current decoded image
\* is that file's (data URL, name, allow-listed type) and no error is held.
C5_LoadPublishesAndClearsError ==
  event.kind = "load"
  => /\ imageDataUrl = DataUrl(event.file)
     /\ fileName = event.file.name
     /\ fileType = event.file.type
     /\ fileType \in {"image/svg+xml", "image/webp"}
     /\ error = Null

\* C6: an insert made while no decoded image is current sets the
\* NoFileSelected error and makes no call of addComponent.
C6_InsertWithoutImage ==
  (event.kind = "insert" /\ prev.imageDataUrl = Null)
  => (error = NoFileSelected /\ Len(hostCalls) = prev.nCalls)

C6_Witness ==
  /\ event.kind = "insert"
  /\ prev.imageDataUrl = Null
  /\ prev.error # NoFileSelected

C8_ExactAllowList ==
  IsSelection
  => IF event.file.type \in {"image/svg+xml", "image/webp"}
     THEN /\ error = Null
          /\ Len(pending) = prev.nPending + 1
          /\ pending[Len(pending)].file = event.file
     ELSE /\ error = UnsupportedType
          /\ Len(pending) = prev.nPending

C8_Witness ==
  /\ IsSelection
  /\ event.file.type = "IMAGE/SVG+XML"
  /\ prev.error = Null
  /\ error = UnsupportedType
  /\ Len(pending) = 1

\* C9: right after the selection of a valid file the error is absent, and
\* while an error is shown every valid file can still be selected.
C9_ValidSelectionClearsError ==
  /\ (IsSelection /\ event.file.type \in {"image/svg+xml", "image/webp"})
     => error = Null
  /\ (error # Null /\ Mounted /\ Len(pending) < MaxPending)
     => \A f \in ValidFiles :
          ENABLED handleFileChange(f) /\ ENABLED handleDrop(f)

C9_Witness ==
  /\ IsSelection
  /\ event.file.type \in {"image/svg+xml", "image/webp"}
  /\ prev.error = ReadFailure
  /\ error = Null

\* C10: a picker change or a drop that carries no file leaves the decoded
\* image, file name, file type and error as they were and starts no read.
C10_EmptySelectionIsNoOp ==
  (event.kind \in {"pick", "drop"} /\ event.file = NoFile)
  => /\ imageDataUrl = prev.imageDataUrl
     /\ fileName = prev.fileName
     /\ fileType = prev.fileType
     /\ error = prev.error
     /\ Len(pending) = prev.nPending

C10_Witness ==
  /\ event.kind = "drop"
  /\ event.file = NoFile
  /\ imageDataUrl # Null
  /\ error = UnsupportedType
  /\ Len(pending) = 1

\* C11: every drag-over leads to DragActive, every drag-leave or drop leads
\* to Idle, from either state, and no other event changes the drag state.
C11_DragStateMachine ==
  [][\A d \in BOOLEAN :
       dragActive = d
       => /\ event'.kind = "dragover" => dragActive' = TRUE
          /\ event'.kind \in {"dragleave", "drop"} => dragActive' = FALSE
          /\ event'.kind \notin {"dragover", "dragleave", "drop"}
             => dragActive' = d]_vars

C11_Witness ==
  /\ event.kind = "load"
  /\ dragActive
  /\ error = UnsupportedType

ErrorValues == {Null, UnsupportedType, ReadFailure, NoFileSelected}

\* The decoded image a selection of file f may leave behind: the one that was
\* current, none, or the one of f
ImageCandidates(f) ==
  { <<imageDataUrl, fileName, fileType>>,
    <<Null, Null, Null>>,
    <<DataUrl(f), f.name, f.type>> }

\* The read a selection of file f starts: none (k = 0) or one for f (k = 1)
StartsRead(k, f) ==
  IF k = 0 THEN pending' = pending
  ELSE /\ Len(pending') = Len(pending) + 1
       /\ pending'[Len(pending')].file = f
       /\ \A i \in 1..Len(pending) : pending'[i].file = pending[i].file

\* C12: from one and the same state and for the same candidate file, the
\* picker path and the drop path are enabled together and produce the same
\* decoded image, file name, file type and error, start the same read and make
\* no host call; the drop clears the drag flag, the pick keeps it.  (Each
\* handler has one outcome per state and file, so a common outcome is the
\* outcome of both.)
C12_PickEqualsDrop ==
  \A f \in Files \cup {NoFile} :
    \/ /\ \E x \in ImageCandidates(f) :
            /\ ENABLED (/\ handleFileChange(f)
                        /\ <<imageDataUrl', fileName', fileType'>> = x
                        /\ hostCalls' = hostCalls
                        /\ dragActive' = dragActive)
            /\ ENABLED (/\ handleDrop(f)
                        /\ <<imageDataUrl', fileName', fileType'>> = x
                        /\ hostCalls' = hostCalls
                        /\ dragActive' = FALSE)
       /\ \E e \in ErrorValues :
            /\ ENABLED (handleFileChange(f) /\ error' = e)
            /\ ENABLED (handleDrop(f) /\ error' = e)
       /\ \E k \in 0..1 :
            /\ ENABLED (handleFileChange(f) /\ StartsRead(k, f))
            /\ ENABLED (handleDrop(f) /\ StartsRead(k, f))
    \/ ~ENABLED handleFileChange(f) /\ ~ENABLED handleDrop(f)

C12_Witness ==
  /\ event.kind = "drop"
  /\ event.file.type = "image/webp"
  /\ imageDataUrl # Null
  /\ Len(pending) = 1
  /\ \A f \in Files : ENABLED handleFileChange(f) /\ ENABLED handleDrop(f)

\* C13: after reset, and until a file is selected again, the decoded image,
\* file name and file type stay absent, also when a decode that was started
\* before the reset completes after it.
C13_StaysCleared ==
  cleared => (imageDataUrl = Null /\ fileName = Null /\ fileType = Null)

\* C14: the message listener is registered exactly while the component is
\* active: one listener after the effect ran, none before it and none after
\* the teardown, never more than one.
C14_ListenerScoped ==
  /\ listeners = (IF phase = "active" THEN 1 ELSE 0)
  /\ listeners <= 1

C14_Witness ==
  /\ event.kind = "unmount"
  /\ phase = "unmounted"
  /\ listeners = 0
  /\ Len(pending) > 0

\* C15: a selection of a valid file starts exactly one read, of that file; a
\* rejected selection starts none; a read failure or a load ends one read and
\* starts none; no other event starts a read.
C15_NoRetry ==
  /\ (IsSelection /\ event.file.type \in {"image/svg+xml", "image/webp"})
     => /\ Len(pending) = prev.nPending + 1
        /\ pending[Len(pending)].file = event.file
  /\ (IsSelection /\ event.file.type \notin {"image/svg+xml", "image/webp"})
     => Len(pending) = prev.nPending
  /\ event.kind \in {"error", "load"} => Len(pending) = prev.nPending - 1
  /\ (~IsSelection /\ event.kind \notin {"error", "load"})
     => Len(pending) = prev.nPending

C15_Witness ==
  /\ event.kind = "error"
  /\ error = ReadFailure
  /\ prev.nPending = 1
  /\ pending = <<>>

\* C16: drag-over and drag-leave leave the decoded image, file name, file type
\* and error as they were, start no read and make no host call; the outcome
\* of a selection and of the decode it starts is fixed by the file and the
\* result fields alone, whatever the drag state is.
C16_DragIsPresentational ==
  [][/\ event'.kind \in {"dragover", "dragleave"}
        => UNCHANGED <<imageDataUrl, fileName, fileType, error, pending,
                       hostCalls>>
     /\ \A d \in BOOLEAN :
          dragActive = d
          => /\ IsSelection'
                => /\ UNCHANGED <<imageDataUrl, fileName, fileType>>
                   /\ IF event'.file.type \in {"image/svg+xml", "image/webp"}
                      THEN /\ error' = Null
                           /\ Len(pending') = Len(pending) + 1
                      ELSE /\ error' = UnsupportedType
                           /\ pending' = pending
             /\ event'.kind = "load"
                => <<imageDataUrl', fileName', fileType', error'>>
                     = <<DataUrl(event'.file), event'.file.name,
                         event'.file.type, error>>
             /\ event'.kind = "error"
                => <<imageDataUrl', fileName', fileType', error'>>
                     = <<imageDataUrl, fileName, fileType, ReadFailure>>]_vars

C16_Witness ==
  /\ event.kind = "pick"
  /\ event.file.type = "image/svg+xml"
  /\ dragActive
  /\ prev.error = UnsupportedType
  /\ error = Null
  /\ Len(pending) = prev.nPending + 1

\* the decode of file f has just published its image or the ReadFailure error
Published(f) ==
  \/ /\ event.kind = "load"
     /\ event.file = f
     /\ <<imageDataUrl, fileName, fileType>> = <<DataUrl(f), f.name, f.type>>
  \/ /\ event.kind = "error"
     /\ event.file = f
     /\ error = ReadFailure

\* C17: when every started read eventually fires load or error, every
\* selection of a valid file is eventually followed by a state in which that
\* file's decoded image or the ReadFailure error has been published.
C17_DecodeCompletes ==
  \A f \in ValidFiles : (IsSelection /\ event.file = f) ~> Published(f)

C17_Witness ==
  /\ event.kind = "error"
  /\ event.file.type = "image/webp"
  /\ event.reader.supersededBy.type = "image/svg+xml"
  /\ error = ReadFailure
  /\ Len(pending) = 1

\* C18: imageDataUrl, fileName and fileType are all absent or all present;
\* when present they are the data URL, name and type of one file, and the
\* type is on the allow-list.
C18_ImageFieldsConsistent ==
  \/ <<imageDataUrl, fileName, fileType>> = <<Null, Null, Null>>
  \/ /\ imageDataUrl # Null /\ fileName # Null /\ fileType # Null
     /\ \E f \in Files :
          <<imageDataUrl, fileName, fileType>> = <<DataUrl(f), f.name, f.type>>
     /\ fileType \in {"image/svg+xml", "image/webp"}

C18_Witness ==
  /\ event.kind = "clear"
  /\ prev.imageDataUrl # Null
  /\ prev.error # Null
  /\ imageDataUrl = Null
  /\ Len(pending) = 1

\* C19: every call of addComponent carries the data URL and the name of a
\* file whose MIME type is on the allow-list, and at the time of the call
\* they are those of the file whose decode succeeded last; without a
\* successful decode there is no call.
C19_OnlyDecodedReachHost ==
  /\ \A i \in 1..Len(hostCalls) :
       \E f \in Files :
         /\ f.type \in {"image/svg+xml", "image/webp"}
         /\ hostCalls[i].data.src = DataUrl(f)
         /\ hostCalls[i].data.name = f.name
  /\ lastLoaded = NoFile => hostCalls = <<>>
  /\ (event.kind = "insert" /\ Len(hostCalls) = prev.nCalls + 1)
     => /\ hostCalls[Len(hostCalls)].data.src = DataUrl(lastLoaded)
        /\ hostCalls[Len(hostCalls)].data.name = lastLoaded.name

C19_Witness ==
  /\ event.kind = "insert"
  /\ Len(hostCalls) = prev.nCalls + 1
  /\ prev.error = ReadFailure
  /\ hostCalls[1].data.name = "logo.svg"

\* C20: every successful completion overwrites the current decoded image,
\* also that of a reader superseded by a later selection, so a current image
\* is always the one of the decode that completed last.
C20_LastCompletionWins ==
  /\ event.kind = "load"
     => <<imageDataUrl, fileName, fileType>>
          = <<DataUrl(event.file), event.file.name, event.file.type>>
  /\ imageDataUrl # Null
     => <<imageDataUrl, fileName, fileType>>
          = <<DataUrl(lastLoaded), lastLoaded.name, lastLoaded.type>>

C20_Witness ==
  /\ event.kind = "load"
  /\ event.reader.supersededBy \notin {NoFile, event.file}
  /\ event.reader.newerLoaded
  /\ prev.imageDataUrl = DataUrl(event.reader.supersededBy)
  /\ imageDataUrl = DataUrl(event.file)

====
